---- MODULE Spec2Model ----
(***************************************************************************)
(* Model of pikaur/core.py: the strict record DataType and the cached      *)
(* key=value configuration reader ConfigReader.                            *)
(*                                                                         *)
(* Python strings are modelled as sequences of one-character strings, so   *)
(* that strip/split/join are computed character by character.  Lines are   *)
(* modelled without their line terminator: _parse_line strips the line     *)
(* before using it, so a trailing terminator never reaches key or value.   *)
(***************************************************************************)
EXTENDS Integers, Sequences, FiniteSets, TLC

\* ---------------------------------------------------------------- bounds
MaxLineLen == 5

\* ------------------------------------------------------------ characters
SP == " "
TAB == "\t"
EQ == "="
HASH == "#"
SEMI == ";"
DQ == "\""
SQ == "'"

\* str.strip() / str.split() without arguments act on whitespace
Whitespace == {SP, TAB}

\* the characters lines are drawn from
Alphabet == {SP, TAB, EQ, HASH, SEMI, DQ, SQ, "l", "i", "v"}

None == <<"None">>

comment_prefixes == <<HASH, SEMI>>

\* field classification of the concrete reader (ConfigReader subclasses
\* override the two empty class attributes)
list_fields == {<<"l">>}
ignored_fields == {<<"i">>}

Range(s) == {s[i] : i \in 1..Len(s)}

\* ------------------------------------------------------- str primitives
RECURSIVE lstrip(_, _)
lstrip(s, chars) ==
    IF s # <<>> /\ Head(s) \in chars THEN lstrip(Tail(s), chars) ELSE s

RECURSIVE rstrip(_, _)
rstrip(s, chars) ==
    IF s # <<>> /\ s[Len(s)] \in chars
    THEN rstrip(SubSeq(s, 1, Len(s) - 1), chars)
    ELSE s

\* s.strip(chars): every leading and trailing character of chars is removed
strip(s, chars) == rstrip(lstrip(s, chars), chars)

startswith(s, c) == s # <<>> /\ s[1] = c

\* s.split(sep) for a one-character separator
RECURSIVE split(_, _)
split(s, sep) ==
    IF sep \notin Range(s)
    THEN <<s>>
    ELSE LET i == CHOOSE j \in 1..Len(s) :
                     s[j] = sep /\ \A k \in 1..(j - 1) : s[k] # sep
         IN  <<SubSeq(s, 1, i - 1)>> \o split(SubSeq(s, i + 1, Len(s)), sep)

\* sep.join(parts)
RECURSIVE join(_, _)
join(sep, parts) ==
    IF parts = <<>> THEN <<>>
    ELSE IF Len(parts) = 1 THEN parts[1]
    ELSE parts[1] \o <<sep>> \o join(sep, Tail(parts))

\* a mutant of split_ws: splits at every single whitespace character, the
\* way s.split(' ') does, keeping empty tokens
RECURSIVE split_ws_single(_)
split_ws_single(s) ==
    IF Range(s) \cap Whitespace = {}
    THEN <<s>>
    ELSE LET i == CHOOSE j \in 1..Len(s) :
                     s[j] \in Whitespace /\ \A k \in 1..(j - 1) : s[k] \notin Whitespace
         IN  <<SubSeq(s, 1, i - 1)>> \o split_ws_single(SubSeq(s, i + 1, Len(s)))

\* s.split() without arguments: maximal runs of non-whitespace characters
RECURSIVE split_ws(_)
split_ws(s) ==
    LET t == lstrip(s, Whitespace) IN
    IF t = <<>> THEN <<>>
    ELSE LET n == CHOOSE j \in 1..Len(t) :
                     /\ \A k \in 1..j : t[k] \notin Whitespace
                     /\ (j = Len(t) \/ t[j + 1] \in Whitespace)
         IN  <<SubSeq(t, 1, n)>> \o split_ws(SubSeq(t, n + 1, Len(t)))

\* ------------------------------------------------------- config values
Str(s) == [kind |-> "str", str |-> s, list |-> <<>>]
List(l) == [kind |-> "list", str |-> <<>>, list |-> l]
NoneVal == [kind |-> "None", str |-> <<>>, list |-> <<>>]

\* Python truthiness of a value
Truthy(v) ==
    \/ v.kind = "str" /\ v.str # <<>>
    \/ v.kind = "list" /\ v.list # <<>>

\* ----------------------------------------------- ConfigReader._parse_line
blank == [key |-> None, value |-> NoneVal]

\* the line after line.strip() and the comment_prefixes loop
truncated(line) ==
    LET l0 == strip(line, Whitespace)
        l1 == Head(split(l0, comment_prefixes[1]))
        l2 == Head(split(l1, comment_prefixes[2]))
    IN  l2

\* key and raw value of a line: key, *values = line.split('=') ...
line_key(line) == strip(Head(split(truncated(line), EQ)), Whitespace)
raw_value(line) ==
    strip(join(EQ, Tail(split(truncated(line), EQ))), Whitespace)

\* value.strip('"').strip("'")
unquote(value) == strip(strip(value, {DQ}), {SQ})

_parse_line(line) ==
    IF startswith(line, SP) THEN blank
    ELSE IF EQ \notin Range(line) THEN blank
    ELSE LET key == line_key(line)
             value == raw_value(line)
         IN  IF key \in ignored_fields THEN blank
             ELSE IF value = <<>> THEN [key |-> key, value |-> Str(value)]
             ELSE IF key \in list_fields
                  THEN [key |-> key, value |-> List(split_ws(unquote(value)))]
                  ELSE [key |-> key, value |-> Str(unquote(value))]

\* ---------------------------------------------------------------- state
VARIABLES
    line,                 \* SpecParse: the line handed to _parse_line
    parsed,               \* SpecParse: what _parse_line returned for it
    files,                \* the file system: path -> file
    default_config_path,  \* ConfigReader.default_config_path
    cached_config,        \* ConfigReader._cached_config
    reads,                \* read-count probe: successful open+readlines per path
    returned,             \* history: first mapping get_config returned per path
    ret,                  \* outcome of the last get_config / get call
    declared,             \* SpecRecord: attributes defined on the class
    obj,                  \* SpecRecord: the DataType instance
    passed,               \* SpecRecord: history, names given to __init__
    last                  \* SpecRecord: outcome of the last __init__ / assignment

parseVars == <<line, parsed>>
storeVars == <<files, default_config_path, cached_config, reads, returned, ret>>
recordVars == <<declared, obj, passed, last>>

vars == <<parseVars, storeVars, recordVars>>

\* ------------------------------------------------------------ file system
Paths == {"p1", "p2"}
NonePath == "None"

Missing == [state |-> "missing", lines |-> <<>>]
Undecodable == [state |-> "undecodable", lines |-> <<>>]
File(ls) == [state |-> "ok", lines |-> ls]

\* open_file(path) + readlines(): the lines, or the error that is raised
open_file(fs, path) ==
    IF path \notin DOMAIN fs THEN [ok |-> FALSE, lines |-> <<>>]
    ELSE IF fs[path].state # "ok" THEN [ok |-> FALSE, lines |-> <<>>]
    ELSE [ok |-> TRUE, lines |-> fs[path].lines]

\* --------------------------------------------------------------- mappings
EmptyDict == [k \in {} |-> NoneVal]

\* d[k] = v
dict_set(d, k, v) == [x \in DOMAIN d \cup {k} |-> IF x = k THEN v ELSE d[x]]

\* a mutant of build_mapping: the first occurrence of a key wins
RECURSIVE build_mapping_first(_, _)
build_mapping_first(ls, d) ==
    IF ls = <<>> THEN d
    ELSE LET kv == _parse_line(Head(ls)) IN
         IF kv.key # None /\ kv.key # <<>> /\ kv.key \notin DOMAIN d
         THEN build_mapping_first(Tail(ls), dict_set(d, kv.key, kv.value))
         ELSE build_mapping_first(Tail(ls), d)

\* {key: value for key, value in [_parse_line(line) for line in lines] if key}
RECURSIVE build_mapping(_, _)
build_mapping(ls, d) ==
    IF ls = <<>> THEN d
    ELSE LET kv == _parse_line(Head(ls)) IN
         IF kv.key # None /\ kv.key # <<>>
         THEN build_mapping(Tail(ls), dict_set(d, kv.key, kv.value))
         ELSE build_mapping(Tail(ls), d)

\* ------------------------------------------------ ConfigReader.get_config
\* _cached_config is None until the first call
NoCache == [set |-> FALSE, dict |-> [p \in {} |-> EmptyDict]]

\* the effect of get_config(config_path) in the current state
get_config(config_path) ==
    LET path == IF config_path = NonePath THEN default_config_path
                ELSE config_path
        \* if not cls._cached_config: cls._cached_config = {}
        cache0 == IF ~cached_config.set \/ DOMAIN cached_config.dict = {}
                  THEN [p \in {} |-> EmptyDict]
                  ELSE cached_config.dict
        \* if not cls._cached_config.get(config_path):
        hit == path \in DOMAIN cache0 /\ DOMAIN cache0[path] # {}
        f == open_file(files, path)
    IN  IF hit
        THEN [path |-> path, cache |-> cache0, outcome |-> "ok",
              read |-> FALSE, lines |-> <<>>, mapping |-> cache0[path]]
        ELSE IF ~f.ok
        THEN [path |-> path, cache |-> cache0, outcome |-> "error",
              read |-> FALSE, lines |-> <<>>, mapping |-> EmptyDict]
        ELSE LET m == build_mapping(f.lines, EmptyDict) IN
             [path |-> path, cache |-> dict_set(cache0, path, m),
              outcome |-> "ok", read |-> TRUE, lines |-> f.lines,
              mapping |-> m]

\* a mutant of get_or_fallback: mapping.get(key, fallback)
get_present(m, key, fallback) ==
    IF key \in DOMAIN m THEN m[key] ELSE fallback

\* mapping.get(key) or fallback
get_or_fallback(m, key, fallback) ==
    LET v == IF key \in DOMAIN m THEN m[key] ELSE NoneVal
    IN  IF Truthy(v) THEN v ELSE fallback

\* --------------------------------------------------------------- inputs
MaxFileLines == 3
MaxReads == 2

L_vl == <<"v", EQ, "l">>
L_vv == <<"v", EQ, "v">>
L_ve == <<"v", EQ>>
L_sp == <<SP, "v", EQ, "v">>
L_iv == <<"i", EQ, "v">>
L_lq == <<"l", EQ, DQ, DQ>>
L_ll == <<"l", EQ, "v", SP, "l">>

SampleLines == {L_vl, L_vv, L_ve, L_sp, L_iv, L_lq, L_ll}

Contents == UNION {[1..n -> SampleLines] : n \in 0..MaxFileLines}

\* the files the two-path specification moves between
StoreFiles == {Missing, Undecodable, File(<<L_sp>>), File(<<L_vl>>),
               File(<<L_ve, L_ll>>)}

PathArgs == Paths \cup {NonePath}
Keys == {<<"v">>, <<"l">>, <<"i">>}
Fallbacks == {NoneVal, Str(<<"v">>)}

NoRet == [op |-> "none", arg |-> NonePath, path |-> NonePath, key |-> <<>>,
          fallback |-> NoneVal, outcome |-> "none", read |-> FALSE,
          lines |-> <<>>, pre |-> NoCache.dict, mapping |-> EmptyDict,
          value |-> NoneVal]

\* --------------------------------------------------------------- actions
CallEffects(r) ==
    /\ r.read => r.path \in Paths /\ reads[r.path] < MaxReads
    /\ cached_config' = [set |-> TRUE, dict |-> r.cache]
    /\ reads' = IF r.read THEN [reads EXCEPT ![r.path] = @ + 1] ELSE reads
    /\ returned' = IF r.outcome = "ok" /\ r.path \in Paths
                      /\ ~returned[r.path].set
                   THEN [returned EXCEPT ![r.path] =
                            [set |-> TRUE, mapping |-> r.mapping]]
                   ELSE returned
    /\ UNCHANGED <<parseVars, recordVars, files, default_config_path>>

GetConfig(config_path) ==
    \E r \in {get_config(config_path)} :
    /\ CallEffects(r)
    /\ ret' = [NoRet EXCEPT !.op = "get_config", !.arg = config_path,
                 !.path = r.path, !.outcome = r.outcome, !.read = r.read,
                 !.lines = r.lines, !.pre = cached_config.dict,
                 !.mapping = r.mapping]

Get(key, fallback, config_path) ==
    \E r \in {get_config(config_path)} :
    /\ CallEffects(r)
    /\ ret' = [NoRet EXCEPT !.op = "get", !.arg = config_path,
                 !.path = r.path, !.key = key, !.fallback = fallback,
                 !.outcome = r.outcome, !.read = r.read, !.lines = r.lines,
                 !.pre = cached_config.dict, !.mapping = r.mapping,
                 !.value = IF r.outcome = "ok"
                           THEN get_or_fallback(r.mapping, key, fallback)
                           ELSE NoneVal]

\* the environment replaces, removes or corrupts a file
WriteFile(p, f) ==
    /\ files[p] # f
    /\ files' = [files EXCEPT ![p] = f]
    /\ UNCHANGED <<parseVars, recordVars, default_config_path, cached_config,
                   reads, returned, ret>>

ParseLine ==
    /\ ~parsed.done
    /\ parsed' = [done |-> TRUE, result |-> _parse_line(line)]
    /\ UNCHANGED <<line, storeVars, recordVars>>

\* ---------------------------------------------------------------- DataType
NOT_FOUND_ATOM == "NOT_FOUND_ATOM"
ClassDefault == "None"
cls_name == "DataType"

MaxKwargs == 2
Names == {"a", "b", "c"}
Values == {"1", "5", NOT_FOUND_ATOM}

EmptyAttrs == [n \in {} |-> ClassDefault]
NoError == [type |-> "none", cls |-> "", attr |-> ""]

\* getattr(self, key, default): the instance dictionary, then the class
getattr(cls, attrs, key, default) ==
    IF key \in DOMAIN attrs THEN attrs[key]
    ELSE IF key \in DOMAIN cls THEN cls[key]
    ELSE default

\* a mutant of __setattr__: only names in the instance dictionary are legal
setattr_instance_only(cls, attrs, key, value) ==
    IF key \notin DOMAIN attrs
    THEN [ok |-> FALSE, attrs |-> attrs,
          err |-> [type |-> "TypeError", cls |-> cls_name, attr |-> key]]
    ELSE [ok |-> TRUE, attrs |-> dict_set(attrs, key, value), err |-> NoError]

\* DataType.__setattr__
__setattr__(cls, attrs, key, value) ==
    IF getattr(cls, attrs, key, NOT_FOUND_ATOM) = NOT_FOUND_ATOM
    THEN [ok |-> FALSE, attrs |-> attrs,
          err |-> [type |-> "TypeError", cls |-> cls_name, attr |-> key]]
    ELSE [ok |-> TRUE, attrs |-> dict_set(attrs, key, value), err |-> NoError]

\* DataType.__init__: setattr for each keyword argument in order; the first
\* TypeError ends the construction
RECURSIVE __init__(_, _, _)
__init__(cls, attrs, kwargs) ==
    IF kwargs = <<>> THEN [ok |-> TRUE, attrs |-> attrs, err |-> NoError]
    ELSE LET r == __setattr__(cls, attrs, Head(kwargs)[1], Head(kwargs)[2])
         IN  IF r.ok THEN __init__(cls, r.attrs, Tail(kwargs)) ELSE r

\* keyword arguments: distinct names, in call order
Kwargs ==
    {kw \in UNION {[1..n -> Names \X Values] : n \in 0..MaxKwargs} :
        \A i, j \in 1..Len(kw) : i # j => kw[i][1] # kw[j][1]}

KwNames(kw) == {kw[i][1] : i \in 1..Len(kw)}

NoObject == [exists |-> FALSE, attrs |-> EmptyAttrs]
NoLast == [op |-> "none", kwargs |-> <<>>, key |-> "", value |-> "",
           pre |-> EmptyAttrs, ok |-> TRUE, err |-> NoError]

\* record = DataType(**kwargs)
Construct(kwargs) ==
    \E r \in {__init__(declared, EmptyAttrs, kwargs)} :
    /\ obj' = IF r.ok THEN [exists |-> TRUE, attrs |-> r.attrs] ELSE NoObject
    /\ passed' = IF r.ok THEN KwNames(kwargs) ELSE {}
    /\ last' = [NoLast EXCEPT !.op = "init", !.kwargs = kwargs, !.ok = r.ok,
                  !.err = r.err]
    /\ UNCHANGED <<parseVars, storeVars, declared>>

\* record.key = value
SetAttr(key, value) ==
    /\ obj.exists
    /\ \E r \in {__setattr__(declared, obj.attrs, key, value)} :
        /\ obj' = [obj EXCEPT !.attrs = r.attrs]
        /\ last' = [NoLast EXCEPT !.op = "setattr", !.key = key,
                      !.value = value, !.pre = obj.attrs, !.ok = r.ok,
                      !.err = r.err]
    /\ UNCHANGED <<parseVars, storeVars, declared, passed>>

\* ------------------------------------------------------- specifications
Lines == UNION {[1..n -> Alphabet] : n \in 0..MaxLineLen}

StoreIdle ==
    /\ files = [p \in Paths |-> Missing]
    /\ default_config_path = NonePath
    /\ cached_config = NoCache
    /\ reads = [p \in Paths |-> 0]
    /\ returned = [p \in Paths |-> [set |-> FALSE, mapping |-> EmptyDict]]
    /\ ret = NoRet

ParseIdle ==
    /\ line = <<>>
    /\ parsed = [done |-> FALSE, result |-> blank]

RecordIdle ==
    /\ declared = EmptyAttrs
    /\ obj = NoObject
    /\ passed = {}
    /\ last = NoLast

\* _parse_line applied to every line of the alphabet up to MaxLineLen
InitParse ==
    /\ line \in Lines
    /\ parsed = [done |-> FALSE, result |-> blank]
    /\ StoreIdle
    /\ RecordIdle

NextParse == ParseLine

SpecParse == InitParse /\ [][NextParse]_vars

\* the cache over two paths whose files the environment changes
Init ==
    /\ ParseIdle
    /\ RecordIdle
    /\ files \in [Paths -> StoreFiles]
    /\ default_config_path \in {NonePath, "p1"}
    /\ cached_config = NoCache
    /\ reads = [p \in Paths |-> 0]
    /\ returned = [p \in Paths |-> [set |-> FALSE, mapping |-> EmptyDict]]
    /\ ret = NoRet

Next ==
    \/ \E p \in PathArgs : GetConfig(p)
    \/ \E k \in Keys, fb \in Fallbacks, p \in PathArgs : Get(k, fb, p)
    \/ \E p \in Paths, f \in StoreFiles : WriteFile(p, f)

Spec == Init /\ [][Next]_vars

\* one path whose file holds any content of up to MaxFileLines sample lines
InitRead ==
    /\ ParseIdle
    /\ RecordIdle
    /\ \E c \in Contents : files = [p \in Paths |->
                                       IF p = "p1" THEN File(c) ELSE Missing]
    /\ default_config_path = "p1"
    /\ cached_config = NoCache
    /\ reads = [p \in Paths |-> 0]
    /\ returned = [p \in Paths |-> [set |-> FALSE, mapping |-> EmptyDict]]
    /\ ret = NoRet

NextRead ==
    \/ GetConfig(NonePath)
    \/ \E k \in Keys, fb \in Fallbacks : Get(k, fb, NonePath)

SpecRead == InitRead /\ [][NextRead]_vars

\* a DataType (sub)class with any set of class-level attributes, each holding
\* a default or the sentinel itself
InitRecord ==
    /\ ParseIdle
    /\ StoreIdle
    /\ \E ns \in SUBSET Names :
          declared \in [ns -> {ClassDefault, NOT_FOUND_ATOM}]
    /\ obj = NoObject
    /\ passed = {}
    /\ last = NoLast

NextRecord ==
    \/ \E kw \in Kwargs : Construct(kw)
    \/ \E n \in Names, v \in Values : SetAttr(n, v)

SpecRecord == InitRecord /\ [][NextRecord]_vars

\* ================================================================= claims

\* C1: for any sequence of get_config / get calls the file of a path is
\* opened and read at most once, whatever the file contains.
C1_ReadAtMostOnce == \A p \in Paths : reads[p] <= 1

\* C2: get(key, fallback, path) returns fallback when key is absent from the
\* mapping of the resolved path or its stored value is an empty string or an
\* empty sequence, and the stored value unmodified in every other case.
C2_GetFallback ==
    (ret.op = "get" /\ ret.outcome = "ok") =>
        LET m == cached_config.dict[ret.path] IN
        IF ret.key \notin DOMAIN m \/ m[ret.key] \in {Str(<<>>), List(<<>>)}
        THEN ret.value = ret.fallback
        ELSE ret.value = m[ret.key]

\* get found the key with an empty sequence as value and answered with the
\* caller's fallback
C2_Witness ==
    /\ ret.op = "get" /\ ret.outcome = "ok"
    /\ ret.key \in DOMAIN cached_config.dict[ret.path]
    /\ cached_config.dict[ret.path][ret.key] = List(<<>>)
    /\ ret.fallback = Str(<<"v">>)
    /\ ret.value = ret.fallback

C4_NoEntryAfterFailure ==
    ret.outcome = "error" =>
        /\ ret.path \notin DOMAIN cached_config.dict
        /\ DOMAIN cached_config.dict \ {ret.path} = DOMAIN ret.pre \ {ret.path}
        /\ \A q \in DOMAIN ret.pre \ {ret.path} :
              cached_config.dict[q] = ret.pre[q]

\* C5: once get_config has returned a mapping for a path, every later
\* get_config call for that path returns that same mapping, even when the
\* file has changed in between.
C5_SameMapping ==
    (ret.op = "get_config" /\ ret.outcome = "ok" /\ ret.path \in Paths) =>
        /\ returned[ret.path].set
        /\ ret.mapping = returned[ret.path].mapping

\* one layer of surrounding quotes q, if s is surrounded by q
StripLayer(s, q) ==
    IF Len(s) >= 2 /\ s[1] = q /\ s[Len(s)] = q
    THEN SubSeq(s, 2, Len(s) - 1)
    ELSE s

Quoted(s) == Len(s) >= 2 /\ s[1] = s[Len(s)] /\ s[1] \in {DQ, SQ}

Contributes(r) == r.key # None /\ r.key # <<>>

\* C6: for a non-list, non-ignored key with a non-empty quoted value the
\* parse removes at most one layer of surrounding double quotes and then at
\* most one layer of surrounding single quotes, and no further quote.
C6_UnquotedOnce ==
    (/\ parsed.done /\ Contributes(parsed.result)
     /\ parsed.result.key \notin list_fields \cup ignored_fields
     /\ Quoted(raw_value(line))) =>
        parsed.result.value =
            Str(StripLayer(StripLayer(raw_value(line), DQ), SQ))

\* C7: a line whose first character is whitespace (space, tab, ...) is
\* skipped and contributes no key.
C7_LeadingWhitespaceSkipped ==
    (parsed.done /\ line # <<>> /\ line[1] \in Whitespace) =>
        ~Contributes(parsed.result)

\* the lines of ls that produce key k
Producing(ls, k) == {i \in 1..Len(ls) : _parse_line(ls[i]).key = k}

Last(S) == CHOOSE i \in S : \A j \in S : j <= i

\* C8: the mapping get_config builds from a file holds, for every key some
\* line produces, the value of the last line producing it (an empty value
\* included), and no other key; skipped and ignored lines change nothing.
C8_LastOccurrenceWins ==
    (ret.op = "get_config" /\ ret.read) =>
        LET ls == ret.lines
            K == {k \in {_parse_line(ls[i]).key : i \in 1..Len(ls)} :
                     k # None /\ k # <<>>}
        IN  /\ DOMAIN ret.mapping = K
            /\ ret.mapping = cached_config.dict[ret.path]
            /\ \A k \in K :
                  ret.mapping[k] = _parse_line(ls[Last(Producing(ls, k))]).value

\* a file gave a key twice with different values, followed by a line that
\* produces nothing, and the mapping holds the second value
C8_Witness ==
    /\ ret.op = "get_config" /\ ret.read
    /\ \E i, j, h \in 1..Len(ret.lines) :
          /\ i < j /\ j < h
          /\ Contributes(_parse_line(ret.lines[i]))
          /\ _parse_line(ret.lines[i]).key = _parse_line(ret.lines[j]).key
          /\ _parse_line(ret.lines[i]).value # _parse_line(ret.lines[j]).value
          /\ ~Contributes(_parse_line(ret.lines[h]))
          /\ ret.mapping[_parse_line(ret.lines[j]).key]
                = _parse_line(ret.lines[j]).value

RECURSIVE Flatten(_)
Flatten(ss) == IF ss = <<>> THEN <<>> ELSE Head(ss) \o Flatten(Tail(ss))

RECURSIVE WithoutWhitespace(_)
WithoutWhitespace(s) ==
    IF s = <<>> THEN <<>>
    ELSE IF Head(s) \in Whitespace THEN WithoutWhitespace(Tail(s))
    ELSE <<Head(s)>> \o WithoutWhitespace(Tail(s))

\* the positions of s where a run of non-whitespace characters starts
WordStarts(s) ==
    {i \in 1..Len(s) : s[i] \notin Whitespace
                       /\ (i = 1 \/ s[i - 1] \in Whitespace)}

\* toks are the maximal whitespace-free runs of s, in order
IsTokenisation(toks, s) ==
    /\ \A i \in 1..Len(toks) :
          toks[i] # <<>> /\ Range(toks[i]) \cap Whitespace = {}
    /\ Flatten(toks) = WithoutWhitespace(s)
    /\ Len(toks) = Cardinality(WordStarts(s))

C10_EqualsBeforeComment ==
    (parsed.done /\ Contributes(parsed.result)) =>
        EQ \in Range(truncated(line))
====
